---------------------------- MODULE Spec2Model ----------------------------
(***************************************************************************)
(* Model of src/server.js: an express relay in front of the Stripe SDK.    *)
(*                                                                         *)
(* Every request slot r runs one route handler.  A handler is a sequence   *)
(* of atomic steps separated by its awaits: the step that receives the     *)
(* request runs the synchronous prefix up to the first vendor call, and    *)
(* every later step is the vendor settling the pending call (resolving or  *)
(* rejecting it) together with the continuation of the handler up to the   *)
(* next await or to the response.  Requests in different slots interleave  *)
(* freely at the awaits, as on the node event loop.                        *)
(*                                                                         *)
(* trace[r] is the ordered list of what request r did: vendor calls it     *)
(* issued, vendor results it received, lines it wrote to the log and       *)
(* responses it sent.                                                      *)
(*                                                                         *)
(* JS values are strings: "undefined" is an absent field, "" the empty     *)
(* string, "[...]" an array.  Texts (log lines, plain-text bodies, error   *)
(* messages) are sequences of string fragments; a template literal is the  *)
(* concatenation of its fragments.                                         *)
(***************************************************************************)
EXTENDS Integers, Sequences, FiniteSets, TLC

VARIABLES pc, req, trace, customer, customers

vars == <<pc, req, trace, customer, customers>>

\* Number of request slots (requests that may be in flight together).
MaxRequests == 2

Req == 1..MaxRequests

-----------------------------------------------------------------------------
(* JS values *)

Absent == "undefined"

Falsy == {"undefined", "null", "", "false"}

Truthy(v) == v \notin Falsy

\* a || b
Or(a, b) == IF Truthy(a) THEN a ELSE b

\* s occurs in t as a contiguous run of fragments
IsSubstring(s, t) ==
    \E i \in 0..(Len(t) - Len(s)) : SubSeq(t, i + 1, i + Len(s)) = s

Min(a, b) == IF a <= b THEN a ELSE b

-----------------------------------------------------------------------------
(* The vendor (Stripe), as seen through the SDK *)

\* err.message of a rejected vendor call
ErrMsgs == {<<"Your card was declined.">>, <<"No such ", "resource">>}

CusId(n) == "cus_" \o ToString(n)

Secret(id) == id \o "_secret"

\* a PaymentIntent or SetupIntent object
Intent(id) == [id |-> id, client_secret |-> Secret(id)]

VendorReader == [id |-> "tmr_1"]

VendorToken == [secret |-> "pst_secret"]

VendorLocations == <<"tml_1", "tml_2">>

VendorLocation == [id |-> "tml_3"]

\* every secret value the vendor can return
Secrets == {VendorToken.secret} \cup {Secret(id) : id \in {"pi_1", "pi_2", "seti_1"}}

CustomerLookupLimit == 1

LocationsPageSize == 100

\* stripe.customers.list({email, limit}): newest first, at most `limit`
CustomersList(limit) == [data |-> SubSeq(customers, 1, Min(limit, Len(customers)))]

-----------------------------------------------------------------------------
(* Events of a request *)

Call(op, params) == [kind |-> "call", op |-> op, params |-> params]

Returned(t, value) == Append(t, [kind |-> "ret", ok |-> TRUE, value |-> value])

Threw(t, message) == Append(t, [kind |-> "ret", ok |-> FALSE, message |-> message])

\* logInfo(message): writes the line, returns the message
LogInfo(t, message) == Append(t, [kind |-> "log", line |-> message])

\* res.status(status).json(body)
SendJson(t, status, body) == Append(t, [kind |-> "resp", status |-> status, json |-> body])

\* a send that forgets logInfo
SendLoggedSilent(t, status, text) ==
    Append(t, [kind |-> "resp", status |-> status, text |-> text])

\* res.status(status).send(logInfo(text))
SendLogged(t, status, text) ==
    Append(LogInfo(t, text), [kind |-> "resp", status |-> status, text |-> text])

\* an error text that leaves the vendor's message out
ErrorTextNoMessage(prefix, message) == <<prefix>>

\* `${prefix}${err.message}`
ErrorText(prefix, message) == <<prefix>> \o message

NoBody == [none |-> Absent]

Init ==
    /\ pc = [r \in Req |-> "idle"]
    /\ req = [r \in Req |-> [route |-> "none", body |-> NoBody]]
    /\ trace = [r \in Req |-> << >>]
    /\ customer = [r \in Req |-> Absent]
    /\ customers \in {<< >>, <<CusId(0)>>}

\* the request arrives and the handler runs to its first await
Begin(r, route, body, call) ==
    /\ pc[r] = "idle"
    /\ req' = [req EXCEPT ![r] = [route |-> route, body |-> body]]
    /\ trace' = [trace EXCEPT ![r] = <<call>>]
    /\ pc' = [pc EXCEPT ![r] = "await"]

\* the handler of `route` is suspended on a vendor call
Awaiting(r, route) ==
    /\ pc[r] = "await"
    /\ req[r].route = route

\* the vendor call the handler is suspended on
Pending(r) == trace[r][Len(trace[r])]

\* the handler responds and ends
Finish(r, t) ==
    /\ trace' = [trace EXCEPT ![r] = t]
    /\ pc' = [pc EXCEPT ![r] = "done"]

\* a catch block that issues the failed call again instead of answering
CatchRetry(r, prefix) ==
    \E message \in ErrMsgs :
        /\ trace' = [trace EXCEPT ![r] = Append(Threw(@, message), Pending(r))]
        /\ UNCHANGED pc

\* a catch block that logs and never answers
CatchSilent(r, prefix) ==
    \E message \in ErrMsgs :
        Finish(r, LogInfo(Threw(trace[r], message), ErrorText(prefix, message)))

\* the pending vendor call rejects and the catch block of the handler runs
Catch(r, prefix) ==
    \E message \in ErrMsgs :
        Finish(r, SendLogged(Threw(trace[r], message), 402, ErrorText(prefix, message)))

-----------------------------------------------------------------------------
(* Handlers *)

NoParams == [none |-> Absent]

\* GET /test
TestRoute(r) ==
    /\ pc[r] = "idle"
    /\ req' = [req EXCEPT ![r] = [route |-> "test", body |-> NoBody]]
    /\ Finish(r, SendJson(<< >>, 200, [data |-> "hello worlds"]))
    /\ UNCHANGED <<customer, customers>>

ReaderBodies ==
    {[registration_code |-> "simulated-wpe", label |-> "till", location |-> "tml_1"]}

\* POST /register_reader
RegisterReader(r) ==
    \/ /\ \E body \in ReaderBodies :
            Begin(r, "register_reader", body,
                  Call("terminal.readers.create",
                       [registration_code |-> body.registration_code,
                        label |-> body.label,
                        location |-> body.location]))
       /\ UNCHANGED <<customer, customers>>
    \/ /\ Awaiting(r, "register_reader")
       /\ LET reader == VendorReader IN
            Finish(r, SendJson(LogInfo(Returned(trace[r], reader),
                                       <<"Reader registered: ", reader.id>>),
                               200, reader))
       /\ UNCHANGED <<req, customer, customers>>
    \/ /\ Awaiting(r, "register_reader")
       /\ Catch(r, "Error registering reader! ")
       /\ UNCHANGED <<req, customer, customers>>

\* POST /connection_token
ConnectionToken(r) ==
    \/ /\ Begin(r, "connection_token", NoBody,
                Call("terminal.connectionTokens.create", NoParams))
       /\ UNCHANGED <<customer, customers>>
    \/ /\ Awaiting(r, "connection_token")
       /\ LET token == VendorToken IN
            Finish(r, SendJson(Returned(trace[r], token), 200, [secret |-> token.secret]))
       /\ UNCHANGED <<req, customer, customers>>
    \/ /\ Awaiting(r, "connection_token")
       /\ Catch(r, "Error creating ConnectionToken! ")
       /\ UNCHANGED <<req, customer, customers>>

\* the fields of a create_payment_intent body the handler reads
CpiBody(types, capture, amount, currency) ==
    [payment_method_types |-> types, capture_method |-> capture, amount |-> amount,
     currency |-> currency, description |-> Absent, payment_method_options |-> Absent,
     receipt_email |-> Absent]

\* bodies of the requests of the relay: {"amount": 1000} and a fully supplied one
BasicCpiBodies ==
    {CpiBody(Absent, Absent, "1000", Absent),
     CpiBody("[card]", "automatic", "1000", "usd")}

\* every combination of absent, falsy and supplied fields
AllCpiBodies ==
    {CpiBody(types, capture, amount, currency) :
        types \in {Absent, "[]", "[card]"},
        capture \in {Absent, "", "automatic"},
        amount \in {Absent, "0", "1000"},
        currency \in {Absent, "", "usd"}}

\* defaults applied with ?? in place of ||
CpiParamsNullish(body) ==
    LET Nullish(v, d) == IF v \in {Absent, "null"} THEN d ELSE v IN
    [payment_method_types |-> Nullish(body.payment_method_types, "[card_present]"),
     capture_method |-> Nullish(body.capture_method, "manual"),
     amount |-> body.amount,
     currency |-> Nullish(body.currency, "gbp"),
     description |-> Nullish(body.description, "Example PaymentIntent"),
     payment_method_options |-> Nullish(body.payment_method_options, "{}"),
     receipt_email |-> body.receipt_email]

\* the parameters of stripe.paymentIntents.create
CpiParams(body) ==
    [payment_method_types |-> Or(body.payment_method_types, "[card_present]"),
     capture_method |-> Or(body.capture_method, "manual"),
     amount |-> body.amount,
     currency |-> Or(body.currency, "gbp"),
     description |-> Or(body.description, "Example PaymentIntent"),
     payment_method_options |-> Or(body.payment_method_options, "{}"),
     receipt_email |-> body.receipt_email]

\* a log line that prints the client secret
CreatedLineSecret(paymentIntent) == <<"PaymentIntent created: ", paymentIntent.client_secret>>

\* `PaymentIntent created: ${paymentIntent.id}`
CreatedLine(paymentIntent) == <<"PaymentIntent created: ", paymentIntent.id>>

\* the success body of the intent routes
IntentJson(intent) == [intent |-> intent.id, secret |-> intent.client_secret]

\* POST /create_payment_intent
CreatePaymentIntent(r, bodies) ==
    \/ /\ \E body \in bodies :
            Begin(r, "create_payment_intent", body,
                  Call("paymentIntents.create", CpiParams(body)))
       /\ UNCHANGED <<customer, customers>>
    \/ /\ Awaiting(r, "create_payment_intent")
       /\ LET paymentIntent == Intent("pi_1") IN
            Finish(r, SendJson(LogInfo(Returned(trace[r], paymentIntent),
                                       CreatedLine(paymentIntent)),
                               200, IntentJson(paymentIntent)))
       /\ UNCHANGED <<req, customer, customers>>
    \/ /\ Awaiting(r, "create_payment_intent")
       /\ Catch(r, "Error creating PaymentIntent! ")
       /\ UNCHANGED <<req, customer, customers>>

CaptureBodies == {[payment_intent_id |-> "pi_2", amount_to_capture |-> "1000"]}

\* POST /capture_payment_intent
CapturePaymentIntent(r) ==
    \/ /\ \E body \in CaptureBodies :
            Begin(r, "capture_payment_intent", body,
                  Call("paymentIntents.capture",
                       [id |-> body.payment_intent_id,
                        amount_to_capture |-> body.amount_to_capture]))
       /\ UNCHANGED <<customer, customers>>
    \/ /\ Awaiting(r, "capture_payment_intent")
       /\ LET paymentIntent == Intent(Pending(r).params.id) IN
            Finish(r, SendJson(LogInfo(Returned(trace[r], paymentIntent),
                                       <<"PaymentIntent captured: ",
                                         req[r].body.payment_intent_id>>),
                               200, IntentJson(paymentIntent)))
       /\ UNCHANGED <<req, customer, customers>>
    \/ /\ Awaiting(r, "capture_payment_intent")
       /\ Catch(r, "Error capturing PaymentIntent! ")
       /\ UNCHANGED <<req, customer, customers>>

CancelBodies == {[payment_intent_id |-> "pi_2"]}

\* POST /cancel_payment_intent
CancelPaymentIntent(r) ==
    \/ /\ \E body \in CancelBodies :
            Begin(r, "cancel_payment_intent", body,
                  Call("paymentIntents.cancel", [id |-> body.payment_intent_id]))
       /\ UNCHANGED <<customer, customers>>
    \/ /\ Awaiting(r, "cancel_payment_intent")
       /\ LET paymentIntent == Intent(Pending(r).params.id) IN
            Finish(r, SendJson(LogInfo(Returned(trace[r], paymentIntent),
                                       <<"PaymentIntent canceled: ",
                                         req[r].body.payment_intent_id>>),
                               200, IntentJson(paymentIntent)))
       /\ UNCHANGED <<req, customer, customers>>
    \/ /\ Awaiting(r, "cancel_payment_intent")
       /\ Catch(r, "Error canceling PaymentIntent! ")
       /\ UNCHANGED <<req, customer, customers>>

SetupBodies ==
    {[payment_method_types |-> Absent, customer |-> Absent, description |-> Absent,
      on_behalf_of |-> Absent]}

\* POST /create_setup_intent
CreateSetupIntent(r) ==
    \/ /\ \E body \in SetupBodies :
            Begin(r, "create_setup_intent", body,
                  Call("setupIntents.create",
                       [payment_method_types |->
                            Or(body.payment_method_types, "[card_present]"),
                        customer |-> body.customer,
                        description |-> body.description,
                        on_behalf_of |-> body.on_behalf_of]))
       /\ UNCHANGED <<customer, customers>>
    \/ /\ Awaiting(r, "create_setup_intent")
       /\ LET setupIntent == Intent("seti_1") IN
            Finish(r, SendJson(LogInfo(Returned(trace[r], setupIntent),
                                       <<"SetupIntent created: ", setupIntent.id>>),
                               200, IntentJson(setupIntent)))
       /\ UNCHANGED <<req, customer, customers>>
    \/ /\ Awaiting(r, "create_setup_intent")
       /\ Catch(r, "Error creating SetupIntent! ")
       /\ UNCHANGED <<req, customer, customers>>

SentinelEmail == "example@test.com"

AttachBodies ==
    {[payment_method_id |-> "pm_1", customer |-> c] : c \in {Absent, "cus_caller"}}

\* a lookup that never reuses the customer it found
NeedsCreateAlways(data) == TRUE

\* a single-flight guard: no create while another request's create is pending
NeedsCreateSingleFlight(data) ==
    /\ Len(data) = 0
    /\ ~\E q \in Req : pc[q] = "await" /\ Pending(q).op = "customers.create"

\* customers.data.length ? customers.data[0] : await stripe.customers.create(...)
NeedsCreate(data) == Len(data) = 0

\* customers.data[0]
First(data) == IF Len(data) > 0 THEN data[1] ELSE Absent

\* an attach that prefers the customer the caller names
AttachParamsCaller(body, cust) ==
    [id |-> body.payment_method_id, customer |-> Or(body.customer, cust),
     expand |-> "[customer]"]

\* the parameters of stripe.paymentMethods.attach
AttachParams(body, cust) ==
    [id |-> body.payment_method_id, customer |-> cust, expand |-> "[customer]"]

\* the handler, holding `cust`, goes on to the attach; reading customer.id of
\* an undefined customer throws inside the try block
ThenAttach(r, t, cust) ==
    IF cust = Absent
    THEN /\ Finish(r, SendLogged(t, 402,
                     ErrorText("Error attaching PaymentMethod! ",
                               <<"Cannot read properties of undefined (reading 'id')">>)))
         /\ UNCHANGED customer
    ELSE /\ trace' = [trace EXCEPT ![r] =
                         Append(t, Call("paymentMethods.attach", AttachParams(req[r].body, cust)))]
         /\ customer' = [customer EXCEPT ![r] = cust]
         /\ UNCHANGED pc

\* POST /attach_payment_method_to_customer, with lookupOrCreateExampleCustomer
AttachPaymentMethodToCustomer(r) ==
    \/ /\ \E body \in AttachBodies :
            Begin(r, "attach_payment_method_to_customer", body,
                  Call("customers.list",
                       [email |-> SentinelEmail, limit |-> CustomerLookupLimit]))
       /\ UNCHANGED <<customer, customers>>
    \/ /\ Awaiting(r, "attach_payment_method_to_customer")
       /\ Pending(r).op = "customers.list"
       /\ LET found == CustomersList(Pending(r).params.limit) IN
            IF NeedsCreate(found.data)
            THEN /\ trace' = [trace EXCEPT ![r] =
                                 Append(Returned(@, found),
                                        Call("customers.create", [email |-> SentinelEmail]))]
                 /\ UNCHANGED <<pc, customer>>
            ELSE ThenAttach(r, Returned(trace[r], found), First(found.data))
       /\ UNCHANGED <<req, customers>>
    \/ /\ Awaiting(r, "attach_payment_method_to_customer")
       /\ Pending(r).op = "customers.create"
       /\ LET created == [id |-> CusId(Len(customers) + 1)] IN
            /\ customers' = <<created.id>> \o customers
            /\ ThenAttach(r, Returned(trace[r], created), created.id)
       /\ UNCHANGED req
    \/ /\ Awaiting(r, "attach_payment_method_to_customer")
       /\ Pending(r).op = "paymentMethods.attach"
       /\ LET paymentMethod == [id |-> Pending(r).params.id,
                                customer |-> Pending(r).params.customer] IN
            Finish(r, SendJson(LogInfo(Returned(trace[r], paymentMethod),
                                       <<"Attached PaymentMethod to Customer: ", customer[r]>>),
                               200, paymentMethod))
       /\ UNCHANGED <<req, customer, customers>>
    \/ /\ Awaiting(r, "attach_payment_method_to_customer")
       /\ Catch(r, "Error attaching PaymentMethod! ")
       /\ UNCHANGED <<req, customer, customers>>

UpdateBodies ==
    {[payment_intent_id |-> id, receipt_email |-> "a@b.c"] : id \in {Absent, "", "pi_2"}}

\* a precondition that is never checked
MissingIdNever(body) == FALSE

\* !payment_intent_id
MissingId(body) == ~Truthy(body.payment_intent_id)

\* POST /update_payment_intent
UpdatePaymentIntent(r) ==
    \/ /\ pc[r] = "idle"
       /\ \E body \in UpdateBodies :
            /\ MissingId(body)
            /\ req' = [req EXCEPT ![r] = [route |-> "update_payment_intent", body |-> body]]
            /\ Finish(r, SendLogged(<< >>, 400, <<"'payment_intent_id' is required">>))
       /\ UNCHANGED <<customer, customers>>
    \/ /\ \E body \in UpdateBodies :
            /\ ~MissingId(body)
            /\ Begin(r, "update_payment_intent", body,
                     Call("paymentIntents.update",
                          [id |-> body.payment_intent_id,
                           receipt_email |-> body.receipt_email]))
       /\ UNCHANGED <<customer, customers>>
    \/ /\ Awaiting(r, "update_payment_intent")
       /\ LET paymentIntent == Intent(Pending(r).params.id) IN
            Finish(r, SendJson(LogInfo(Returned(trace[r], paymentIntent),
                                       <<"Updated PaymentIntent ",
                                         req[r].body.payment_intent_id>>),
                               200, IntentJson(paymentIntent)))
       /\ UNCHANGED <<req, customer, customers>>
    \/ /\ Awaiting(r, "update_payment_intent")
       /\ Catch(r, "Error updating PaymentIntent! ")
       /\ UNCHANGED <<req, customer, customers>>

\* GET /list_locations
ListLocations(r) ==
    \/ /\ Begin(r, "list_locations", NoBody,
                Call("terminal.locations.list", [limit |-> LocationsPageSize]))
       /\ UNCHANGED <<customer, customers>>
    \/ /\ Awaiting(r, "list_locations")
       /\ LET locations == [data |-> SubSeq(VendorLocations, 1,
                                Min(Pending(r).params.limit, Len(VendorLocations)))] IN
            Finish(r, SendJson(LogInfo(Returned(trace[r], locations),
                                       <<ToString(Len(locations.data)), " Locations fetched">>),
                               200, locations.data))
       /\ UNCHANGED <<req, customer, customers>>
    \/ /\ Awaiting(r, "list_locations")
       /\ Catch(r, "Error fetching Locations! ")
       /\ UNCHANGED <<req, customer, customers>>

LocationBodies == {[display_name |-> "HQ", address |-> "{line1}"]}

\* POST /create_location
CreateLocation(r) ==
    \/ /\ \E body \in LocationBodies :
            Begin(r, "create_location", body,
                  Call("terminal.locations.create",
                       [display_name |-> body.display_name, address |-> body.address]))
       /\ UNCHANGED <<customer, customers>>
    \/ /\ Awaiting(r, "create_location")
       /\ LET location == VendorLocation IN
            Finish(r, SendJson(LogInfo(Returned(trace[r], location),
                                       <<"Location created: ", location.id>>),
                               200, location))
       /\ UNCHANGED <<req, customer, customers>>
    \/ /\ Awaiting(r, "create_location")
       /\ Catch(r, "Error creating Location! ")
       /\ UNCHANGED <<req, customer, customers>>

-----------------------------------------------------------------------------
(* Specifications *)

\* the vendor settles a pending call of r and its handler continues
Continue(r) ==
    /\ pc[r] = "await"
    /\ \/ RegisterReader(r)
       \/ ConnectionToken(r)
       \/ CreatePaymentIntent(r, BasicCpiBodies)
       \/ CapturePaymentIntent(r)
       \/ CancelPaymentIntent(r)
       \/ CreateSetupIntent(r)
       \/ AttachPaymentMethodToCustomer(r)
       \/ UpdatePaymentIntent(r)
       \/ ListLocations(r)
       \/ CreateLocation(r)

Next ==
    \E r \in Req :
        \/ TestRoute(r)
        \/ RegisterReader(r)
        \/ ConnectionToken(r)
        \/ CreatePaymentIntent(r, BasicCpiBodies)
        \/ CapturePaymentIntent(r)
        \/ CancelPaymentIntent(r)
        \/ CreateSetupIntent(r)
        \/ AttachPaymentMethodToCustomer(r)
        \/ UpdatePaymentIntent(r)
        \/ ListLocations(r)
        \/ CreateLocation(r)

\* all routes, requests interleaving freely
Spec == Init /\ [][Next]_vars

\* the same, where every vendor call a handler awaits eventually settles
FairSpec == Init /\ [][Next]_vars /\ \A r \in Req : WF_vars(Continue(r))

\* attach requests only, each finishing before the next starts
SerialNext ==
    \E r \in Req :
        /\ pc[r] = "idle" => \A q \in Req : pc[q] # "await"
        /\ AttachPaymentMethodToCustomer(r)

SerialSpec == Init /\ [][SerialNext]_vars

\* one create_payment_intent request, over every shape of body
DefaultsNext == CreatePaymentIntent(1, AllCpiBodies)

DefaultsSpec == Init /\ [][DefaultsNext]_vars

-----------------------------------------------------------------------------
(* Reading a request's trace *)

Idx(r) == 1..Len(trace[r])

IsCall(r, i) == trace[r][i].kind = "call"

IsCallOf(r, i, op) == IsCall(r, i) /\ trace[r][i].op = op

IsResolved(r, i) == trace[r][i].kind = "ret" /\ trace[r][i].ok

IsRejected(r, i) == trace[r][i].kind = "ret" /\ ~trace[r][i].ok

IsLog(r, i) == trace[r][i].kind = "log"

IsResp(r, i) == trace[r][i].kind = "resp"

IsRespOf(r, i, status) == IsResp(r, i) /\ trace[r][i].status = status

\* index i holds the resolved result of a call of op
IsResultOf(r, i, op) == i > 1 /\ IsResolved(r, i) /\ IsCallOf(r, i - 1, op)

NumCalls(r) == Cardinality({i \in Idx(r) : IsCall(r, i)})

NumResp(r) == Cardinality({i \in Idx(r) : IsResp(r, i)})

\* the vendor operations request r called, in order
Ops(r) ==
    LET calls == SelectSeq(trace[r], LAMBDA e : e.kind = "call") IN
        [k \in 1..Len(calls) |-> calls[k].op]

IsPrefix(s, t) == Len(s) <= Len(t) /\ SubSeq(t, 1, Len(s)) = s

\* the routes that contact the vendor
VendorRoutes ==
    {"register_reader", "connection_token", "create_payment_intent",
     "capture_payment_intent", "cancel_payment_intent", "create_setup_intent",
     "attach_payment_method_to_customer", "update_payment_intent",
     "list_locations", "create_location"}

IsAttach(r) == req[r].route = "attach_payment_method_to_customer"

\* the ids of the customers the create calls of request r returned
CreatedBy(r) == {trace[r][i].value.id : i \in {j \in Idx(r) : IsResultOf(r, j, "customers.create")}}

\* the lookup of request r came back empty
SawNotFound(r) ==
    \E i \in Idx(r) : IsResultOf(r, i, "customers.list") /\ trace[r][i].value.data = << >>

-----------------------------------------------------------------------------
(* C1 *)

\* C1: whenever a vendor call of a request fails, the request is answered
\* with status 402 and a text that contains the vendor's error message, and
\* no response of that request has another status.
C1_VendorFailureIs402 ==
    \A r \in Req : \A i \in Idx(r) :
        IsRejected(r, i) =>
            /\ \E j \in Idx(r) :
                  /\ j > i
                  /\ IsRespOf(r, j, 402)
                  /\ IsSubstring(trace[r][i].message, trace[r][j].text)
            /\ \A j \in Idx(r) : IsResp(r, j) => trace[r][j].status = 402

\* an attach request whose customer create failed has been answered
C1_Witness ==
    \E r \in Req : \E i \in Idx(r) :
        /\ IsAttach(r)
        /\ IsRejected(r, i)
        /\ IsCallOf(r, i - 1, "customers.create")
        /\ pc[r] = "done"

(* C2 *)

\* C2: an update_payment_intent request without payment_intent_id calls the
\* vendor zero times and its only response is a 400.
C2_MissingIdIs400NoVendor ==
    \A r \in Req :
        (req[r].route = "update_payment_intent" /\ req[r].body.payment_intent_id = Absent) =>
            /\ NumCalls(r) = 0
            /\ NumResp(r) = 1
            /\ IsRespOf(r, Len(trace[r]), 400)

C2_Witness ==
    \E r \in Req :
        /\ req[r].route = "update_payment_intent"
        /\ req[r].body.payment_intent_id = Absent
        /\ pc[r] = "done"

(* C3 *)

\* C3: nothing guards the create: a request whose lookup came back empty
\* issues a customer create as its next step whatever the other requests are
\* doing, and the creates of different requests yield different records of
\* the vendor.
C3_NoSingleFlightGuard ==
    /\ \A r \in Req : \A i \in Idx(r) :
          (IsResultOf(r, i, "customers.list") /\ trace[r][i].value.data = << >>) =>
              (i < Len(trace[r]) /\ IsCallOf(r, i + 1, "customers.create"))
    /\ \A r \in Req : \A id \in CreatedBy(r) : \E k \in 1..Len(customers) : customers[k] = id
    /\ \A r1, r2 \in Req : r1 # r2 => CreatedBy(r1) \cap CreatedBy(r2) = {}

\* two requests, both of which saw no customer, left two customers where there
\* was none
C3_TwoSentinelCustomers ==
    \E r1, r2 \in Req :
        /\ r1 # r2
        /\ SawNotFound(r1) /\ SawNotFound(r2)
        /\ CreatedBy(r1) # {} /\ CreatedBy(r2) # {}
        /\ Len(customers) = 2
        /\ \A k \in 1..Len(customers) : customers[k] # CusId(0)

(* C4 *)

\* C4 as stated: every response of a relay handler is preceded by a log line
\* of its request.
C4_EveryResponseLogged ==
    \A r \in Req : \A j \in Idx(r) :
        (req[r].route \in VendorRoutes /\ IsResp(r, j)) => \E i \in 1..(j - 1) : IsLog(r, i)

\* the success of connection_token, and GET /test, are answered without a log line
UnloggedSuccess(r, j) ==
    /\ req[r].route \in {"connection_token", "test"}
    /\ trace[r][j].status = 200

\* C4, amended: every 400 and 402 response is the text of the log line written
\* just before it, and every 200 response other than connection_token's (and
\* GET /test's) is preceded by a log line of its request.
C4_ResponsesLoggedExceptToken ==
    \A r \in Req : \A j \in Idx(r) :
        IsResp(r, j) =>
            /\ ~UnloggedSuccess(r, j) => \E i \in 1..(j - 1) : IsLog(r, i)
            /\ trace[r][j].status # 200 =>
                  (j > 1 /\ IsLog(r, j - 1) /\ trace[r][j - 1].line = trace[r][j].text)
            /\ UnloggedSuccess(r, j) => \A i \in Idx(r) : ~IsLog(r, i)

\* a failed connection_token request: logged, then answered
C4_Witness ==
    \E r \in Req :
        /\ req[r].route = "connection_token"
        /\ pc[r] = "done"
        /\ IsRespOf(r, Len(trace[r]), 402)
        /\ IsLog(r, Len(trace[r]) - 1)

(* C5 *)

\* C5 as stated: a finished request has awaited exactly one vendor call, an
\* attach request exactly two.
C5_OneAwaitOrTwo ==
    \A r \in Req :
        (pc[r] = "done" /\ req[r].route \in VendorRoutes) =>
            NumCalls(r) = IF IsAttach(r) THEN 2 ELSE 1

AttachWithCustomer == <<"customers.list", "paymentMethods.attach">>

AttachWithCreate == <<"customers.list", "customers.create", "paymentMethods.attach">>

\* C5, amended: a request of a route other than attach awaits at most one
\* vendor call, and exactly one once answered unless update_payment_intent
\* answered 400 without an id; an attach request awaits the list, a create
\* only after an empty list, and the attach: two calls when the customer
\* exists, three when it is created, fewer when one fails.  No call follows a
\* failed call.
C5_AwaitCounts ==
    \A r \in Req :
        req[r].route \in VendorRoutes =>
            /\ \A i \in Idx(r) : IsRejected(r, i) => \A j \in Idx(r) : j > i => ~IsCall(r, j)
            /\ ~IsAttach(r) =>
                  /\ NumCalls(r) <= 1
                  /\ pc[r] = "done" =>
                        NumCalls(r) =
                            IF req[r].route = "update_payment_intent" /\ MissingId(req[r].body)
                            THEN 0 ELSE 1
            /\ IsAttach(r) =>
                  /\ IsPrefix(Ops(r), AttachWithCustomer) \/ IsPrefix(Ops(r), AttachWithCreate)
                  /\ NumCalls(r) >= 1
                  /\ IsRespOf(r, Len(trace[r]), 200) =>
                        Ops(r) = IF SawNotFound(r) THEN AttachWithCreate ELSE AttachWithCustomer
                  /\ \A i \in Idx(r) : IsCallOf(r, i, "customers.create") =>
                        (IsResultOf(r, i - 1, "customers.list")
                            /\ trace[r][i - 1].value.data = << >>)

\* an attach request that created the customer: three awaits, then 200
C5_Witness ==
    \E r \in Req :
        /\ IsAttach(r)
        /\ IsRespOf(r, Len(trace[r]), 200)
        /\ NumCalls(r) = 3

(* C6 *)

\* C6: in an attach request the attach call is issued right after the lookup
\* or the create has resolved, for the id that call returned, which is a
\* customer of the vendor and not the caller's; no call of the request has
\* failed before it.
C6_AttachAfterLookupOrCreate ==
    \A r \in Req : \A i \in Idx(r) :
        IsCallOf(r, i, "paymentMethods.attach") =>
            /\ \/ /\ IsResultOf(r, i - 1, "customers.list")
                  /\ trace[r][i - 1].value.data # << >>
                  /\ trace[r][i].params.customer = trace[r][i - 1].value.data[1]
               \/ /\ IsResultOf(r, i - 1, "customers.create")
                  /\ trace[r][i].params.customer = trace[r][i - 1].value.id
            /\ \E k \in 1..Len(customers) : customers[k] = trace[r][i].params.customer
            /\ \A j \in 1..(i - 1) : ~IsRejected(r, j)

\* a caller named a customer of their own and the attach went to the sentinel
C6_Witness ==
    \E r \in Req : \E i \in Idx(r) :
        /\ IsCallOf(r, i, "paymentMethods.attach")
        /\ req[r].body.customer = "cus_caller"
        /\ IsResultOf(r, i - 1, "customers.create")
        /\ trace[r][i].params.customer # "cus_caller"

(* C7 *)

IsCpi(r) == req[r].route = "create_payment_intent"

\* the parameters request r gave stripe.paymentIntents.create
CpiSent(r) == trace[r][1].params

\* C7 as stated: each defaulted field takes the caller's value when the body
\* has the field and the default only when it has not.
C7_DefaultOnlyWhenAbsent ==
    \A r \in Req :
        IsCpi(r) =>
            LET b == req[r].body
                p == CpiSent(r)
                Supplied(v, d) == IF v # Absent THEN v ELSE d
            IN  /\ p.payment_method_types = Supplied(b.payment_method_types, "[card_present]")
                /\ p.capture_method = Supplied(b.capture_method, "manual")
                /\ p.currency = Supplied(b.currency, "gbp")

\* C7, amended: create_payment_intent issues one paymentIntents.create call;
\* amount is passed through unchanged; payment_method_types, capture_method
\* and currency take the caller's value when it is truthy and the default
\* ["card_present"], "manual", "gbp" when the field is absent or falsy (such
\* as ""); so {amount} alone yields exactly the three defaults.
C7_DefaultWhenFalsy ==
    \A r \in Req :
        IsCpi(r) =>
            LET b == req[r].body
                p == CpiSent(r)
                Given(v, d) == IF v \in Falsy THEN d ELSE v
            IN  /\ Ops(r) = <<"paymentIntents.create">>
                /\ p.amount = b.amount
                /\ p.payment_method_types = Given(b.payment_method_types, "[card_present]")
                /\ p.capture_method = Given(b.capture_method, "manual")
                /\ p.currency = Given(b.currency, "gbp")
                /\ (b = CpiBody(Absent, Absent, "1000", Absent)) =>
                      /\ p.payment_method_types = "[card_present]"
                      /\ p.capture_method = "manual"
                      /\ p.currency = "gbp"
                      /\ p.amount = "1000"

\* a body whose currency is the empty string went out as gbp
C7_Witness ==
    \E r \in Req :
        /\ IsCpi(r)
        /\ req[r].body.currency = ""
        /\ CpiSent(r).currency = "gbp"
        /\ pc[r] = "done"

(* C8 *)

C9_ExactlyOneResponse ==
    /\ [](\A r \in Req :
            /\ NumResp(r) <= 1
            /\ NumResp(r) = 1 => (pc[r] = "done" /\ IsResp(r, Len(trace[r])))
            /\ \A i \in Idx(r) : IsResp(r, i) => trace[r][i].status \in {200, 400, 402})
    /\ \A r \in Req : <>[](pc[r] # "idle" => NumResp(r) = 1)

\* every request answered, one of them an update_payment_intent stopped at its 400
C9_Witness ==
    /\ \A r \in Req : pc[r] = "done" /\ NumResp(r) = 1
    /\ \E r \in Req : req[r].route = "update_payment_intent" /\ IsRespOf(r, Len(trace[r]), 400)
    /\ \E r \in Req : IsAttach(r) /\ IsRespOf(r, Len(trace[r]), 402)

(* C10 *)

\* the attach calls of request r
AttachCalls(r) == {i \in Idx(r) : IsCallOf(r, i, "paymentMethods.attach")}

\* C10: with attach requests one after the other, a create is issued only
\* after an empty lookup, all requests together create at most one customer,
\* the vendor never holds two, and all attach calls name the same customer.
C10_SerialAtMostOneCustomer ==
    /\ \A r \in Req : \A i \in Idx(r) :
          IsCallOf(r, i, "customers.create") =>
              (IsResultOf(r, i - 1, "customers.list") /\ trace[r][i - 1].value.data = << >>)
    /\ Cardinality(UNION {CreatedBy(r) : r \in Req}) <= 1
    /\ Len(customers) <= 1
    /\ \A r1, r2 \in Req : \A i \in AttachCalls(r1) : \A j \in AttachCalls(r2) :
          trace[r1][i].params.customer = trace[r2][j].params.customer

\* one request created the customer and a later one reused it
C10_Witness ==
    \E r1, r2 \in Req :
        /\ r1 # r2
        /\ pc[r1] = "done" /\ pc[r2] = "done"
        /\ Ops(r1) = AttachWithCreate
        /\ Ops(r2) = AttachWithCustomer
        /\ IsRespOf(r2, Len(trace[r2]), 200)
        /\ customer[r1] = customer[r2]

=============================================================================
